---- MODULE Spec2Model ----
(***************************************************************************)
(* A model of the SNS topic-subscription manager                           *)
(* (plugins/modules/sns_topic_subscription.py), of the SQS queue info      *)
(* module (plugins/modules/sqs_queue_info.py) and of the SQS helpers       *)
(* (plugins/module_utils/sqs.py).                                          *)
(*                                                                         *)
(* Python strings that the code inspects character by character (names,    *)
(* ARNs, endpoints) are sequences of one-character strings.  Python's None *)
(* is the string "None" for opaque values and the empty sequence for       *)
(* character strings (both are falsy in the code's "if not x" tests).      *)
(***************************************************************************)
EXTENDS Integers, Sequences, FiniteSets, TLC

VARIABLES
    params,   \* module.params and module.check_mode of the invocation
    subs,     \* remote SNS state: the subscriptions, in listing order
    arns,     \* remote SNS state: how many subscription ARNs were issued
    queues,   \* remote SQS state: the queues, by name
    mgr,      \* the fields of SnsTopicSubscriptionManager / locals of sqs main
    changed,  \* the local "changed" of main
    result,   \* what exit_json / fail_json emitted
    calls,    \* the SDK calls of the current run, in order
    pc,       \* position of main
    run,      \* 1 for the first invocation, 2 for the repeated one
    subs0,    \* remote SNS state when the current run started
    first     \* outcome of the first invocation, kept for the second

vars == <<params, subs, arns, queues, mgr, changed, result, calls, pc, run, subs0, first>>

-----------------------------------------------------------------------------
(* Bounds of the model *)

MaxSubs == 2
MaxStemLen == 1

-----------------------------------------------------------------------------
(* Python strings *)

None == "None"
NoStr == <<>>

Truthy(v) == v # None
TruthyStr(s) == Len(s) > 0

startswith(s, p) == Len(s) >= Len(p) /\ SubSeq(s, 1, Len(p)) = p
endswith(s, p) == Len(s) >= Len(p) /\ SubSeq(s, Len(s) - Len(p) + 1, Len(s)) = p

ArnPrefix == <<"a", "r", "n", ":">>
FifoSuffix == <<".", "f", "i", "f", "o">>

RECURSIVE SeqsUpTo(_, _)
SeqsUpTo(A, n) ==
    IF n = 0 THEN {<<>>}
    ELSE LET shorter == SeqsUpTo(A, n - 1)
         IN  shorter \cup {Append(s, a) : s \in shorter, a \in A}

(* The names the identity-resolution rules are exercised on: an optional   *)
(* 'arn:' (or a near miss), a stem, an optional '.fifo' (or a near miss).  *)
NamePrefixes == {<<>>, ArnPrefix, <<"a", "r", "n">>}
NameSuffixes == {<<>>, FifoSuffix, <<"f", "i", "f", "o">>, <<".", "f", "i", "f">>}
NameStems == SeqsUpTo({"t", "."}, MaxStemLen)
Names == {p \o s \o x : p \in NamePrefixes, s \in NameStems, x \in NameSuffixes} \ {<<>>}
Types == {"standard", "fifo"}

-----------------------------------------------------------------------------
(* Identity resolution *)

(* populate_arns, lines 297-299: the name handed to topic_arn_lookup *)
TopicLookupNameNoSuffixTest(topic_type, topic_name) ==
    IF topic_type = "fifo" THEN topic_name \o FifoSuffix ELSE topic_name

TopicLookupName(topic_type, topic_name) ==
    IF topic_type = "fifo" /\ ~endswith(topic_name, FifoSuffix)
    THEN topic_name \o FifoSuffix
    ELSE topic_name

(* sqs.get_queue_name *)
get_queue_name(name, is_fifo) ==
    IF ~is_fifo \/ endswith(name, FifoSuffix) THEN name ELSE name \o FifoSuffix

(* sqs_queue_info.main, line 175: module.params.get('type') in ('fifo'),   *)
(* a substring test on the string 'fifo'; of the two choices of the        *)
(* argument spec only 'fifo' is a substring.                               *)
is_fifo_of(type) == type = "fifo"

-----------------------------------------------------------------------------
(* Python dictionaries are functions; items() and the set operators *)

EmptyDict == [k \in {} |-> ""]
items(d) == {<<k, d[k]>> : k \in DOMAIN d}
SymDiff(A, B) == (A \ B) \cup (B \ A)

(* A parameter value of subscription.attributes: its str() text, and       *)
(* whether it was given as an integer rather than as a string.             *)
PyVal(isint, text) == [int |-> isint, s |-> text]
str(v) == v.s

-----------------------------------------------------------------------------
(* The remote SNS service, as the SDK client shows it *)

TopicArnOf(name) == ArnPrefix \o name
TopicsExisting == {<<"t">> \o FifoSuffix, <<"o">>}
TopicArnsExisting == {TopicArnOf(n) : n \in TopicsExisting}

ArnOf(i) == "sub" \o ToString(i)
Owner == "123456789012"

(* Attributes every subscription has, besides the ones that can be set *)
IdentityAttributes(sub) ==
    [Owner |-> Owner, Endpoint |-> sub.Endpoint, Protocol |-> sub.Protocol,
     SubscriptionArn |-> sub.SubscriptionArn, TopicArn |-> sub.TopicArn]

Merge(f, g) ==
    [k \in DOMAIN f \cup DOMAIN g |-> IF k \in DOMAIN g THEN g[k] ELSE f[k]]

HasSub(S, arn) == \E i \in 1..Len(S) : S[i].SubscriptionArn = arn
SubOf(S, arn) == S[CHOOSE i \in 1..Len(S) : S[i].SubscriptionArn = arn]

(* connection.get_subscription_attributes(SubscriptionArn=arn)['Attributes'] *)
get_subscription_attributes(S, arn) ==
    Merge(SubOf(S, arn).Attributes, IdentityAttributes(SubOf(S, arn)))

(* connection.set_subscription_attributes(SubscriptionArn, AttributeName, AttributeValue) *)
set_subscription_attributes(S, arn, key, value) ==
    [i \in 1..Len(S) |->
        IF S[i].SubscriptionArn = arn
        THEN [S[i] EXCEPT !.Attributes = Merge(@, [k \in {key} |-> value])]
        ELSE S[i]]

(* connection.unsubscribe(SubscriptionArn=arn) *)
unsubscribe(S, arn) == SelectSeq(S, LAMBDA sub : sub.SubscriptionArn # arn)

(* The sns helpers of module_utils/sns.py *)
Digits == {"0", "1", "2", "3", "4", "5", "6", "7", "8", "9", "+"}
canonicalize_endpoint(protocol, endpoint) ==
    <<protocol, IF protocol = "sms"
                THEN SelectSeq(endpoint, LAMBDA ch : ch \in Digits)
                ELSE endpoint>>

topic_arn_lookup(name) ==
    IF name \in TopicsExisting THEN TopicArnOf(name) ELSE NoStr

list_topic_subscriptions(S, topic_arn) ==
    SelectSeq(S, LAMBDA sub : sub.TopicArn = topic_arn)

(* A new subscription starts with raw message delivery off *)
NewAttributes == [RawMessageDelivery |-> "false"]

(* connection.subscribe(TopicArn, Protocol, Endpoint, ReturnSubscriptionArn=True): *)
(* the remote list and the ARN count after the call, and the ARN returned. *)
subscribe(S, n, topic_arn, protocol, endpoint) ==
    LET key == canonicalize_endpoint(protocol, endpoint)
        same(sub) == /\ sub.TopicArn = topic_arn
                     /\ canonicalize_endpoint(sub.Protocol, sub.Endpoint) = key
    IN  IF \E i \in 1..Len(S) : same(S[i])
        THEN [subs |-> S, arns |-> n,
              arn |-> S[CHOOSE i \in 1..Len(S) : same(S[i])].SubscriptionArn]
        ELSE [subs |-> Append(S, [SubscriptionArn |-> ArnOf(n + 1),
                                  TopicArn |-> topic_arn,
                                  Protocol |-> protocol,
                                  Endpoint |-> key[2],
                                  Attributes |-> NewAttributes]),
              arns |-> n + 1,
              arn |-> ArnOf(n + 1)]

-----------------------------------------------------------------------------
(* SnsTopicSubscriptionManager.  A method is an operator on a context c:   *)
(* the parameters c.p, the object's fields c.m, the remote state c.subs    *)
(* and c.arns, the SDK calls made so far c.calls, the failure that ended   *)
(* the process c.fail ("" while it runs) and the method's return value     *)
(* c.ret.                                                                  *)

Call(op, arn, key, value) == [op |-> op, arn |-> arn, key |-> key, value |-> value]

(* __init__ *)
NewManager ==
    [topic_arn |-> NoStr, sub_arn |-> None, lookup_name |-> NoStr,
     desired_subscription_attributes |-> EmptyDict, attributes_set |-> EmptyDict]

(* the check_mode tests of _create_sub, _set_topic_subs_attributes, _delete_sub *)
MayCallAlways(check_mode) == TRUE

MayCall(check_mode) == ~check_mode

_create_sub(c) ==
    IF MayCall(c.p.check_mode)
    THEN IF c.m.topic_arn \notin TopicArnsExisting
         THEN \* subscribe raises; the handler reads self.name, which does not exist
              [c EXCEPT !.fail = "Couldn't subscribe to topic",
                        !.calls = Append(@, Call("subscribe", None, "", ""))]
         ELSE LET response == subscribe(c.subs, c.arns, c.m.topic_arn,
                                        c.p.subscription.protocol,
                                        c.p.subscription.endpoint)
              IN  [c EXCEPT !.subs = response.subs,
                            !.arns = response.arns,
                            !.calls = Append(@, Call("subscribe", response.arn, "", "")),
                            !.m.sub_arn = response.arn,
                            !.ret = TRUE]
    ELSE [c EXCEPT !.ret = TRUE]

_init_desired_subscription_attributes(c) ==
    [c EXCEPT !.m.desired_subscription_attributes =
        [k \in DOMAIN c.p.subscription.attributes |-> str(c.p.subscription.attributes[k])]]

boto_supported_attributes ==
    {"DeliveryPolicy", "FilterPolicy", "RawMessageDelivery", "RedrivePolicy",
     "SubscriptionRoleArn"}

(* iteration order of the desired attributes *)
KeyOrder ==
    <<"DeliveryPolicy", "FilterPolicy", "RawMessageDelivery", "RedrivePolicy",
      "SubscriptionRoleArn">>
KeysOf(d) == SelectSeq(KeyOrder, LAMBDA k : k \in DOMAIN d)

(* lines 241-245: the difference that decides "changed" *)
AttributesDiffAllKeys(desired, attributes_set) ==
    SymDiff(items(desired), items(attributes_set))

AttributesDiff(desired, attributes_set) ==
    LET tmp_sub_attr == [k \in DOMAIN attributes_set \cap boto_supported_attributes
                            |-> attributes_set[k]]
    IN  SymDiff(items(desired), items(tmp_sub_attr))

RECURSIVE SetAll(_, _, _, _)
SetAll(S, arn, desired, keys) ==
    IF keys = <<>> THEN S
    ELSE SetAll(set_subscription_attributes(S, arn, Head(keys), desired[Head(keys)]),
                arn, desired, Tail(keys))

SetCalls(arn, desired) ==
    [i \in 1..Len(KeysOf(desired)) |->
        Call("set_subscription_attributes", arn, KeysOf(desired)[i],
             desired[KeysOf(desired)[i]])]

_set_topic_subs_attributes(c) ==
    LET sub_arn == c.m.sub_arn
        desired == c.m.desired_subscription_attributes
        getcall == Call("get_subscription_attributes", sub_arn, "", "")
    IN  IF ~HasSub(c.subs, sub_arn)
        THEN [c EXCEPT !.fail = "Couldn't get subscription attributes",
                       !.calls = Append(@, getcall)]
        ELSE LET got == get_subscription_attributes(c.subs, sub_arn)
                 diff == AttributesDiff(desired, got)
             IN  IF diff # {}
                 THEN IF MayCall(c.p.check_mode)
                      THEN [c EXCEPT
                              !.subs = SetAll(c.subs, sub_arn, desired, KeysOf(desired)),
                              !.calls = Append(@, getcall) \o SetCalls(sub_arn, desired),
                              !.m.attributes_set = desired,
                              !.ret = TRUE]
                      ELSE [c EXCEPT !.calls = Append(@, getcall),
                                     !.m.attributes_set = desired,
                                     !.ret = TRUE]
                 ELSE [c EXCEPT !.calls = Append(@, getcall),
                                !.m.attributes_set = got,
                                !.ret = FALSE]

_delete_sub(c) ==
    IF MayCall(c.p.check_mode)
    THEN [c EXCEPT !.subs = unsubscribe(c.subs, c.m.sub_arn),
                   !.calls = Append(@, Call("unsubscribe", c.m.sub_arn, "", "")),
                   !.ret = TRUE]
    ELSE [c EXCEPT !.ret = TRUE]

ensure_ok_no_topic_test(c) ==
    LET c1 == IF ~Truthy(c.m.sub_arn) THEN _create_sub(c) ELSE [c EXCEPT !.ret = FALSE]
        c2 == _set_topic_subs_attributes(_init_desired_subscription_attributes(c1))
    IN  IF c1.fail # "" THEN c1
        ELSE [c2 EXCEPT !.ret = c1.ret \/ c2.ret]

ensure_ok(c) ==
    IF ~TruthyStr(c.m.topic_arn)
    THEN [c EXCEPT !.fail = "Cannot subscribe to topic", !.ret = FALSE]
    ELSE LET c1 == IF ~Truthy(c.m.sub_arn) THEN _create_sub(c) ELSE [c EXCEPT !.ret = FALSE]
             c2 == _set_topic_subs_attributes(_init_desired_subscription_attributes(c1))
         IN  IF c1.fail # "" THEN c1
             ELSE [c2 EXCEPT !.ret = c1.ret \/ c2.ret]

ensure_gone(c) ==
    IF ~TruthyStr(c.m.topic_arn)
    THEN [c EXCEPT !.ret = FALSE]
    ELSE IF Truthy(c.m.sub_arn) THEN _delete_sub(c) ELSE [c EXCEPT !.ret = FALSE]

(* populate_arns, lines 302-310 *)
SubKey(sub) == canonicalize_endpoint(sub.Protocol, sub.Endpoint)

subscriptions_existing_list(sublist) ==
    [key \in {SubKey(sublist[i]) : i \in 1..Len(sublist)} |->
        LET last == CHOOSE i \in 1..Len(sublist) :
                        /\ SubKey(sublist[i]) = key
                        /\ \A j \in (i + 1)..Len(sublist) : SubKey(sublist[j]) # key
        IN  sublist[last].SubscriptionArn]

ExistingSubArn(sublist, desired_sub_key, sub_arn) ==
    IF Len(sublist) # 0
    THEN LET sub_key == SubKey(sublist[Len(sublist)])  \* of the last loop pass
         IN  IF desired_sub_key \in DOMAIN subscriptions_existing_list(sublist)
             THEN subscriptions_existing_list(sublist)[sub_key]
             ELSE sub_arn
    ELSE sub_arn

(* populate_arns, lines 293-300 *)
ResolveTopic(m, topic_type, topic_name) ==
    IF startswith(topic_name, ArnPrefix)
    THEN [m EXCEPT !.topic_arn = topic_name]
    ELSE [m EXCEPT !.lookup_name = TopicLookupName(topic_type, topic_name),
                   !.topic_arn = topic_arn_lookup(TopicLookupName(topic_type, topic_name))]

populate_arns(c) ==
    LET m1 == ResolveTopic(c.m, c.p.topic.type, c.p.topic.name)
        desired_sub_key == canonicalize_endpoint(c.p.subscription.protocol,
                                                 c.p.subscription.endpoint)
        sublist == list_topic_subscriptions(c.subs, m1.topic_arn)
    IN  [c EXCEPT !.m = [m1 EXCEPT !.sub_arn = ExistingSubArn(sublist, desired_sub_key, @)]]

(* ansible's camel_dict_to_snake_dict, on the attribute names of a subscription *)
Snake(k) ==
    CASE k = "Owner" -> "owner"
      [] k = "Endpoint" -> "endpoint"
      [] k = "Protocol" -> "protocol"
      [] k = "SubscriptionArn" -> "subscription_arn"
      [] k = "TopicArn" -> "topic_arn"
      [] k = "DeliveryPolicy" -> "delivery_policy"
      [] k = "FilterPolicy" -> "filter_policy"
      [] k = "RawMessageDelivery" -> "raw_message_delivery"
      [] k = "RedrivePolicy" -> "redrive_policy"
      [] k = "SubscriptionRoleArn" -> "subscription_role_arn"

camel_dict_to_snake_dict(d) ==
    [s \in {Snake(k) : k \in DOMAIN d} |-> d[CHOOSE k \in DOMAIN d : Snake(k) = s]]

-----------------------------------------------------------------------------
(* Invocations of sns_topic_subscription *)

TopicNames == {<<"t">>, TopicArnOf(<<"t">> \o FifoSuffix), TopicArnOf(<<"x">>)}

SubscriptionIdentities ==
    {[protocol |-> "sms", endpoint |-> <<"1", "-", "2">>],
     [protocol |-> "sms", endpoint |-> <<"1", "2">>],
     [protocol |-> "sqs", endpoint |-> <<"q">>],
     [protocol |-> "sqs", endpoint |-> <<"1", "-", "2">>]}

DesiredAttributes ==
    {EmptyDict,
     [FilterPolicy |-> PyVal(TRUE, "1")],
     [FilterPolicy |-> PyVal(FALSE, "2")],
     [FilterPolicy |-> PyVal(TRUE, "1"), RawMessageDelivery |-> PyVal(FALSE, "false")]}

SnsParams ==
    {[state |-> st,
      topic |-> [type |-> ty, name |-> nm],
      subscription |-> [protocol |-> id.protocol, endpoint |-> id.endpoint,
                        attributes |-> at],
      check_mode |-> cm] :
        st \in {"present", "absent"}, ty \in Types, nm \in TopicNames,
        id \in SubscriptionIdentities, at \in DesiredAttributes, cm \in BOOLEAN}

(* Remote subscriptions before the first run: endpoints are stored in      *)
(* canonical form, at most one subscription per topic, protocol, endpoint. *)
RemoteAttributes ==
    {EmptyDict,
     [RawMessageDelivery |-> "false"],
     [FilterPolicy |-> "1", RawMessageDelivery |-> "false"]}

RemoteSlots ==
    {[TopicArn |-> TopicArnOf(<<"t">> \o FifoSuffix), Protocol |-> "sms", Endpoint |-> <<"1", "2">>],
     [TopicArn |-> TopicArnOf(<<"t">> \o FifoSuffix), Protocol |-> "sqs", Endpoint |-> <<"q">>],
     [TopicArn |-> TopicArnOf(<<"o">>), Protocol |-> "sqs", Endpoint |-> <<"q">>]}

RemoteSubLists ==
    UNION {
        {[i \in 1..n |-> [SubscriptionArn |-> ArnOf(i),
                          TopicArn |-> sl[i].TopicArn,
                          Protocol |-> sl[i].Protocol,
                          Endpoint |-> sl[i].Endpoint,
                          Attributes |-> at[i]]] :
            sl \in {f \in [1..n -> RemoteSlots] : \A i, j \in 1..n : f[i] = f[j] => i = j},
            at \in [1..n -> RemoteAttributes]} :
        n \in 0..MaxSubs}

NoResult == [failed |-> FALSE, msg |-> "", changed |-> FALSE, arn |-> None,
             attributes |-> EmptyDict]
NoFirst == [changed |-> FALSE, subs |-> <<>>]

Init ==
    /\ params \in SnsParams
    /\ subs \in RemoteSubLists
    /\ arns = Len(subs)
    /\ queues = <<>>
    /\ mgr = NewManager
    /\ changed = FALSE
    /\ result = NoResult
    /\ calls = <<>>
    /\ pc = "start"
    /\ run = 1
    /\ subs0 = subs
    /\ first = NoFirst

Context == [p |-> params, m |-> mgr, subs |-> subs, arns |-> arns, calls |-> calls,
            fail |-> "", ret |-> FALSE]

(* the effect of a method call of main: the process goes on at `next`, or  *)
(* fail_json ended it                                                      *)
Step(c, next) ==
    /\ mgr' = c.m
    /\ subs' = c.subs
    /\ arns' = c.arns
    /\ calls' = c.calls
    /\ IF c.fail # ""
       THEN /\ pc' = "failed"
            /\ result' = [NoResult EXCEPT !.failed = TRUE, !.msg = c.fail]
            /\ UNCHANGED changed
       ELSE /\ pc' = next
            /\ changed' = c.ret
            /\ UNCHANGED result
    /\ UNCHANGED <<params, queues, run, subs0, first>>

(* main, line 347 *)
PopulateArns ==
    /\ pc = "start"
    /\ Step([populate_arns(Context) EXCEPT !.ret = changed], "populated")

(* main, lines 349-350 *)
EnsureOk ==
    /\ pc = "populated"
    /\ params.state = "present"
    /\ Step(ensure_ok(Context), "ensured")

(* main, lines 351-352 *)
EnsureGone ==
    /\ pc = "populated"
    /\ params.state = "absent"
    /\ Step(ensure_gone(Context), "ensured")

(* main, lines 354-359 *)
ExitJson ==
    /\ pc = "ensured"
    /\ result' = [failed |-> FALSE, msg |-> "", changed |-> changed,
                  arn |-> mgr.sub_arn,
                  attributes |-> camel_dict_to_snake_dict(mgr.attributes_set)]
    /\ pc' = "done"
    /\ UNCHANGED <<params, subs, arns, queues, mgr, changed, calls, run, subs0, first>>

(* the same task is run once more, against the remote state the first run left *)
Rerun ==
    /\ pc = "done"
    /\ run = 1
    /\ run' = 2
    /\ first' = [changed |-> result.changed, subs |-> subs0]
    /\ subs0' = subs
    /\ mgr' = NewManager
    /\ changed' = FALSE
    /\ result' = NoResult
    /\ calls' = <<>>
    /\ pc' = "start"
    /\ UNCHANGED <<params, subs, arns, queues>>

Next == PopulateArns \/ EnsureOk \/ EnsureGone \/ ExitJson \/ Rerun

Spec == Init /\ [][Next]_vars

-----------------------------------------------------------------------------
(* Properties of sns_topic_subscription *)

DesiredKey ==
    canonicalize_endpoint(params.subscription.protocol, params.subscription.endpoint)

(* positions in S of the subscriptions of the resolved topic with the desired key *)
Matching(S) ==
    {i \in 1..Len(S) : S[i].TopicArn = mgr.topic_arn /\ SubKey(S[i]) = DesiredKey}

(* the subscriptions that are not the desired one are in S as they were in S0 *)
OthersKept(S0, S) ==
    \A i \in 1..Len(S0) :
        ~(S0[i].TopicArn = mgr.topic_arn /\ SubKey(S0[i]) = DesiredKey)
            => \E j \in 1..Len(S) : S[j] = S0[i]

MutatingOps == {"subscribe", "unsubscribe", "set_subscription_attributes"}
MutatingCalls == {i \in 1..Len(calls) : calls[i].op \in MutatingOps}

(* C1: after populate_arns, sub_arn is the SubscriptionArn of the existing  *)
(* subscription of the topic whose canonicalized key equals the desired     *)
(* key, wherever it is in the list, and is unset when there is none.        *)
C1_PopulateArnsFindsMatching ==
    pc = "populated" =>
        /\ \A i \in Matching(subs) : mgr.sub_arn = subs[i].SubscriptionArn
        /\ Matching(subs) = {} => mgr.sub_arn = None

(* C2: after a successful state=absent run outside check mode on an         *)
(* existing topic, no subscription of the topic has the desired key and     *)
(* every other subscription is left as it was.                              *)
C2_AbsentRemovesOnlyMatching ==
    (/\ pc = "done"
     /\ params.state = "absent"
     /\ ~params.check_mode
     /\ mgr.topic_arn \in TopicArnsExisting)
        => /\ Matching(subs) = {}
           /\ OthersKept(subs0, subs)

(* C3: after a successful state=present run outside check mode on an        *)
(* existing topic, the topic has a subscription with the desired key that   *)
(* carries every desired attribute with its stringified value, and the      *)
(* other subscriptions are not modified.                                    *)
C3_PresentEnsuresDesired ==
    (/\ pc = "done"
     /\ params.state = "present"
     /\ ~params.check_mode
     /\ mgr.topic_arn \in TopicArnsExisting)
        => /\ \E i \in Matching(subs) :
                \A k \in DOMAIN params.subscription.attributes :
                    /\ k \in DOMAIN subs[i].Attributes
                    /\ subs[i].Attributes[k] = str(params.subscription.attributes[k])
           /\ OthersKept(subs0, subs)

(* C4: a run that immediately follows a successful run with the same        *)
(* parameters, outside check mode, reports changed=false and makes no       *)
(* subscribe, unsubscribe or set_subscription_attributes call.              *)
C4_SecondRunChangesNothing ==
    (run = 2 /\ pc = "done" /\ ~params.check_mode)
        => /\ result.changed = FALSE
           /\ MutatingCalls = {}

(* C5: in check mode no run calls subscribe, unsubscribe or                 *)
(* set_subscription_attributes, and the remote subscriptions and their      *)
(* attributes stay as they were when the run started.                       *)
C5_CheckModeCallsNothing ==
    params.check_mode => (MutatingCalls = {} /\ subs = subs0)

C5_Witness ==
    /\ params.check_mode
    /\ pc = "done"
    /\ result.changed
    /\ Len(subs) > 0

(* C6: the changed flag of a successful run outside check mode is true      *)
(* exactly when the run altered the remote state.                           *)
C6_ChangedIffAltered ==
    (pc = "done" /\ ~params.check_mode) => (result.changed <=> subs # subs0)

(* C7: a successful state=present run returns the ARN of the subscription   *)
(* of the topic with the desired key, and as attributes the full attribute  *)
(* set that subscription has remotely at the end of the run.                *)
C7_ResultIsFinalState ==
    (pc = "done" /\ params.state = "present" /\ ~params.check_mode)
        => \E i \in Matching(subs) :
            LET final == camel_dict_to_snake_dict(
                             get_subscription_attributes(subs, subs[i].SubscriptionArn))
            IN  /\ result.arn = subs[i].SubscriptionArn
                /\ DOMAIN result.attributes = DOMAIN final
                /\ \A k \in DOMAIN final : result.attributes[k] = final[k]

(* C10: when the topic cannot be resolved, a state=present run fails with   *)
(* 'Cannot subscribe to topic', a state=absent run succeeds with            *)
(* changed=false, and no SDK call on subscriptions is made.                 *)
C10_UnresolvedTopic ==
    (pc # "start" /\ ~TruthyStr(mgr.topic_arn))
        => /\ calls = <<>>
           /\ subs = subs0
           /\ pc # "populated" =>
                IF params.state = "present"
                THEN /\ pc = "failed"
                     /\ result.failed
                     /\ result.msg = "Cannot subscribe to topic"
                ELSE /\ pc \in {"ensured", "done"}
                     /\ changed = FALSE
                     /\ ~result.failed
                     /\ ~result.changed

C10_Witness ==
    /\ ~TruthyStr(mgr.topic_arn)
    /\ pc = "failed"
    /\ params.state = "present"
    /\ ~params.check_mode
    /\ result.msg = "Cannot subscribe to topic"

(* the desired attributes as strings, and what the subscription sub_arn    *)
(* carried of the five settable attributes when its attributes were read:  *)
(* as the run found it, or as subscribe created it                         *)
DesiredStrings ==
    [k \in DOMAIN params.subscription.attributes |-> params.subscription.attributes[k].s]

SettableNames ==
    {"DeliveryPolicy", "FilterPolicy", "RawMessageDelivery", "RedrivePolicy",
     "SubscriptionRoleArn"}

ObservedSettable ==
    LET all == IF \E i \in 1..Len(subs0) : subs0[i].SubscriptionArn = mgr.sub_arn
               THEN subs0[CHOOSE i \in 1..Len(subs0) :
                              subs0[i].SubscriptionArn = mgr.sub_arn].Attributes
               ELSE NewAttributes
    IN  [k \in DOMAIN all \cap SettableNames |-> all[k]]

SetCallsMade ==
    {i \in 1..Len(calls) : calls[i].op = "set_subscription_attributes"}

(* C11: _set_topic_subs_attributes reports a change exactly when the        *)
(* desired attributes differ from the observed attributes restricted to     *)
(* DeliveryPolicy, FilterPolicy, RawMessageDelivery, RedrivePolicy and      *)
(* SubscriptionRoleArn (Owner, Endpoint, Protocol, TopicArn, ... never      *)
(* count), and calls set_subscription_attributes, once per desired key and  *)
(* on sub_arn, only when they differ and check mode is off.                 *)
C11_DiffOnlySettable ==
    (pc \in {"ensured", "done"} /\ params.state = "present") =>
        LET differs == DesiredStrings # ObservedSettable
            created == \E i \in 1..Len(calls) : calls[i].op = "subscribe"
        IN  /\ changed = (created \/ differs)
            /\ IF differs /\ ~params.check_mode
               THEN /\ Cardinality(SetCallsMade) = Cardinality(DOMAIN DesiredStrings)
                    /\ \A k \in DOMAIN DesiredStrings :
                         \E i \in SetCallsMade :
                            /\ calls[i].arn = mgr.sub_arn
                            /\ calls[i].key = k
                            /\ calls[i].value = DesiredStrings[k]
               ELSE SetCallsMade = {}

C11_Witness ==
    /\ pc = "done"
    /\ params.state = "present"
    /\ ~params.check_mode
    /\ DOMAIN DesiredStrings # {}
    /\ DesiredStrings = ObservedSettable
    /\ ~result.changed
    /\ SetCallsMade = {}

(* main, lines 347-352, as one run with parameters p from the remote       *)
(* subscriptions S with n ARNs issued: whether it failed, and its changed  *)
RunOutcome(p, S, n) ==
    LET c0 == [p |-> p, m |-> NewManager, subs |-> S, arns |-> n, calls |-> <<>>,
               fail |-> "", ret |-> FALSE]
        c1 == populate_arns(c0)
        c2 == IF p.state = "present" THEN ensure_ok(c1) ELSE ensure_gone(c1)
    IN  [failed |-> c2.fail # "", changed |-> c2.ret]

(* C13: a check-mode run ends with the same outcome (success or failure)    *)
(* and the same changed value as a run outside check mode with the same     *)
(* parameters from the same remote state; in particular state=present in    *)
(* check mode with no matching subscription succeeds with changed=true.     *)
C13_CheckModePredictsRun ==
    (params.check_mode /\ pc \in {"done", "failed"}) =>
        LET real == RunOutcome([params EXCEPT !.check_mode = FALSE], subs0, arns)
        IN  /\ (pc = "failed") = real.failed
            /\ pc = "done" => result.changed = real.changed

-----------------------------------------------------------------------------
(* Identity resolution on its own: the rules applied to every name of Names *)

NoNames == [queue_name |-> NoStr, topic_again |-> NoStr, queue_again |-> NoStr]

InitNames ==
    /\ params \in {[name |-> nm, type |-> ty] : nm \in Names, ty \in Types}
    /\ subs = <<>>
    /\ arns = 0
    /\ queues = <<>>
    /\ mgr = NewManager
    /\ changed = FALSE
    /\ result = NoNames
    /\ calls = <<>>
    /\ pc = "names"
    /\ run = 1
    /\ subs0 = <<>>
    /\ first = NoFirst

(* populate_arns, lines 293-300 *)
ResolveTopicName ==
    /\ pc = "names"
    /\ mgr' = ResolveTopic(mgr, params.type, params.name)
    /\ pc' = "topic"
    /\ UNCHANGED <<params, subs, arns, queues, changed, result, calls, run, subs0, first>>

(* sqs_queue_info.main, line 179: get_queue_name(module, is_fifo) *)
ResolveQueueName ==
    /\ pc = "topic"
    /\ result' = [result EXCEPT !.queue_name = get_queue_name(params.name, is_fifo_of(params.type))]
    /\ pc' = "queue"
    /\ UNCHANGED <<params, subs, arns, queues, mgr, changed, calls, run, subs0, first>>

(* the resolved names are handed to the same rules once more *)
ResolveAgain ==
    /\ pc = "queue"
    /\ result' = [result EXCEPT
                    !.topic_again = TopicLookupName(params.type, mgr.lookup_name),
                    !.queue_again = get_queue_name(result.queue_name, is_fifo_of(params.type))]
    /\ pc' = "again"
    /\ UNCHANGED <<params, subs, arns, queues, mgr, changed, calls, run, subs0, first>>

NextNames == ResolveTopicName \/ ResolveQueueName \/ ResolveAgain

SpecNames == InitNames /\ [][NextNames]_vars

(* the last n characters of s *)
LastChars(s, n) == [i \in 1..n |-> s[Len(s) - n + i]]
HasFifoSuffix(s) == Len(s) >= 5 /\ LastChars(s, 5) = <<".", "f", "i", "f", "o">>
HasArnPrefix(s) ==
    Len(s) >= 4 /\ s[1] = "a" /\ s[2] = "r" /\ s[3] = "n" /\ s[4] = ":"

(* C9: a topic name starting with 'arn:' is the topic ARN verbatim, with no *)
(* name lookup; otherwise the name looked up is the given name with '.fifo' *)
(* appended exactly when the type is 'fifo' and the name does not end in    *)
(* '.fifo'; applying the rule to its own result changes nothing, and        *)
(* get_queue_name applies the same rule to queue names.                     *)
C9_IdentityResolution ==
    LET appended == params.name \o <<".", "f", "i", "f", "o">>
        wanted == IF params.type = "fifo" /\ ~HasFifoSuffix(params.name)
                  THEN appended ELSE params.name
    IN  /\ pc \in {"topic", "queue", "again"} =>
             IF HasArnPrefix(params.name)
             THEN mgr.topic_arn = params.name /\ mgr.lookup_name = NoStr
             ELSE /\ mgr.lookup_name = wanted
                  /\ mgr.topic_arn = topic_arn_lookup(wanted)
        /\ pc \in {"queue", "again"} => result.queue_name = wanted
        /\ pc = "again" =>
             /\ result.queue_again = result.queue_name
             /\ ~HasArnPrefix(params.name) => result.topic_again = mgr.lookup_name

C9_Witness ==
    /\ pc = "again"
    /\ params.type = "fifo"
    /\ ~HasArnPrefix(params.name)
    /\ HasFifoSuffix(params.name)
    /\ TruthyStr(mgr.topic_arn)
    /\ result.queue_again = params.name

-----------------------------------------------------------------------------
(* The remote SQS service and the helpers of module_utils/sqs.py *)

QueueArnOf(name) == ArnPrefix \o name
QueueUrlOf(name) == <<"u", "/">> \o name

QueueExists(Q, name) == name \in DOMAIN Q
UrlExists(Q, url) == \E n \in DOMAIN Q : QueueUrlOf(n) = url
QueueOfUrl(Q, url) == Q[CHOOSE n \in DOMAIN Q : QueueUrlOf(n) = url]

(* client.get_queue_attributes(QueueUrl=url, AttributeNames=['All'])['Attributes'] *)
get_queue_attributes(Q, url) == QueueOfUrl(Q, url)

(* get_queue_url: the URL, or None on NonExistentQueue *)
get_queue_url(Q, name) == IF QueueExists(Q, name) THEN QueueUrlOf(name) ELSE NoStr

(* get_queue_arn: [raised, arn].  A url that is None is refused by the      *)
(* client's parameter validation, which is not the NonExistentQueue error   *)
(* the function catches; a url of no queue gives None.                      *)
get_queue_arn(Q, url) ==
    IF ~TruthyStr(url) THEN [raised |-> "ParamValidationError", arn |-> NoStr]
    ELSE IF ~UrlExists(Q, url) THEN [raised |-> "", arn |-> NoStr]
    ELSE [raised |-> "", arn |-> get_queue_attributes(Q, url).QueueArn]

(* what a call of get_queue_arn can give: for a url that is None the        *)
(* client's parameter validation raises; were the request sent, the        *)
(* service's NonExistentQueue answer would be caught and None returned     *)
get_queue_arn_outcomes(Q, url) ==
    IF ~TruthyStr(url)
    THEN {get_queue_arn(Q, url), [raised |-> "", arn |-> NoStr]}
    ELSE {get_queue_arn(Q, url)}

(* camel_dict_to_snake_dict on the attribute names of a queue *)
SnakeQ(k) ==
    CASE k = "QueueArn" -> "queue_arn"
      [] k = "VisibilityTimeout" -> "visibility_timeout"
      [] k = "ContentBasedDeduplication" -> "content_based_deduplication"
      [] k = "Policy" -> "policy"
      [] k = "RedrivePolicy" -> "redrive_policy"

(* describe_queue, lines 84-88: a value that is the decimal text of an      *)
(* integer becomes that integer                                             *)
IsIntText(v) == v \in {"0", "30"}
int(v) == CASE v = "0" -> 0 [] v = "30" -> 30

(* describe_queue: [raised, description] *)
describe_queue(Q, queue_url) ==
    IF ~TruthyStr(queue_url) THEN [raised |-> "ParamValidationError", description |-> EmptyDict]
    ELSE IF ~UrlExists(Q, queue_url)
    THEN [raised |-> "NonExistentQueue", description |-> EmptyDict]
    ELSE LET attributes == get_queue_attributes(Q, queue_url)
             plain == DOMAIN attributes \ {"Policy", "RedrivePolicy"}
             keys == {SnakeQ(k) : k \in plain} \cup {"policy", "redrive_policy"}
             camel(s) == CHOOSE k \in DOMAIN attributes : SnakeQ(k) = s
         IN  IF "Policy" \in DOMAIN attributes \/ "RedrivePolicy" \in DOMAIN attributes
             THEN \* json.loads, and the module does not import json
                  [raised |-> "NameError", description |-> EmptyDict]
             ELSE [raised |-> "",
                   description |->
                     [s \in keys |->
                        IF s \in {"policy", "redrive_policy"} THEN None
                        ELSE IF s = "queue_arn" THEN attributes[camel(s)]
                        ELSE IF s = "content_based_deduplication"
                             THEN attributes[camel(s)] # ""   \* bool(value)
                        ELSE IF IsIntText(attributes[camel(s)])
                             THEN int(attributes[camel(s)])
                             ELSE attributes[camel(s)]]]

(* list_queues: the URLs of all queues *)
list_queues(Q) == {QueueUrlOf(n) : n \in DOMAIN Q}

-----------------------------------------------------------------------------
(* Invocations of sqs_queue_info *)

QueueNamesRemote == {<<"q">>, <<"q">> \o FifoSuffix}
QueueParamNames == QueueNamesRemote \cup {QueueArnOf(<<"q">>), <<"z">>}

QueueAttributes(name) ==
    LET base == [QueueArn |-> QueueArnOf(name), VisibilityTimeout |-> "30"]
        fifo == IF endswith(name, FifoSuffix)
                THEN Merge(base, [ContentBasedDeduplication |-> "false"])
                ELSE base
    IN  {fifo, Merge(fifo, [Policy |-> "{}"])}

RemoteQueues ==
    UNION {
        {q \in [present -> UNION {QueueAttributes(n) : n \in present}] :
            \A n \in present : q[n] \in QueueAttributes(n)} :
        present \in SUBSET QueueNamesRemote}

NoSqsResult == [failed |-> FALSE, msg |-> "", emitted |-> FALSE,
                sqs_queue_arn |-> NoStr, sqs_queue_url |-> NoStr,
                sqs_queue_attributes |-> EmptyDict, queue_urls |-> {}]

(* the locals of main; queue_url is not bound before line 179 assigns it *)
NoLocals == [queue_arn |-> NoStr, queue_url |-> NoStr, queue_url_bound |-> FALSE]

InitSqs ==
    /\ params \in {[name |-> nm, type |-> ty] : nm \in QueueParamNames, ty \in Types}
    /\ queues \in RemoteQueues
    /\ subs = <<>>
    /\ arns = 0
    /\ mgr = NoLocals
    /\ changed = FALSE
    /\ result = NoSqsResult
    /\ calls = <<>>
    /\ pc = "start"
    /\ run = 1
    /\ subs0 = <<>>
    /\ first = NoFirst

Raise(error) ==
    /\ pc' = "failed"
    /\ result' = [NoSqsResult EXCEPT !.failed = TRUE, !.msg = error]

(* main, lines 173-180 *)
SqsResolve ==
    /\ pc = "start"
    /\ IF startswith(params.name, ArnPrefix)
       THEN /\ mgr' = [mgr EXCEPT !.queue_arn = params.name]
            /\ pc' = "resolved"
            /\ UNCHANGED <<result, calls>>
       ELSE LET queue_url == get_queue_url(queues,
                                 get_queue_name(params.name, is_fifo_of(params.type)))
            IN  \E got \in get_queue_arn_outcomes(queues, queue_url) :
                /\ calls' = calls \o <<Call("get_queue_url", None, "", ""),
                                       Call("get_queue_attributes", None, "", "")>>
                /\ IF got.raised # ""
                   THEN /\ Raise(got.raised)
                        /\ mgr' = [mgr EXCEPT !.queue_url = queue_url,
                                              !.queue_url_bound = TRUE]
                   ELSE /\ mgr' = [queue_arn |-> got.arn, queue_url |-> queue_url,
                                   queue_url_bound |-> TRUE]
                        /\ pc' = "resolved"
                        /\ UNCHANGED result
    /\ UNCHANGED <<params, subs, arns, queues, changed, run, subs0, first>>

(* main, lines 183-188 *)
SqsEmit ==
    /\ pc = "resolved"
    /\ IF TruthyStr(mgr.queue_arn)
       THEN IF ~mgr.queue_url_bound
            THEN Raise("UnboundLocalError") /\ UNCHANGED calls
            ELSE LET d == describe_queue(queues, mgr.queue_url)
                 IN  /\ calls' = Append(calls, Call("get_queue_attributes", None, "", ""))
                     /\ IF d.raised # ""
                        THEN Raise(d.raised)
                        ELSE /\ pc' = "done"
                             /\ result' = [NoSqsResult EXCEPT
                                             !.emitted = TRUE,
                                             !.sqs_queue_arn = mgr.queue_arn,
                                             !.sqs_queue_url = mgr.queue_url,
                                             !.sqs_queue_attributes = d.description]
       ELSE \* exit_json(**results) with results a list
            /\ calls' = Append(calls, Call("list_queues", None, "", ""))
            /\ Raise("TypeError")
    /\ UNCHANGED <<params, subs, arns, queues, mgr, changed, run, subs0, first>>

NextSqs == SqsResolve \/ SqsEmit

SpecSqs == InitSqs /\ [][NextSqs]_vars

(* the queue the name parameter denotes: by ARN for a literal ARN, else by  *)
(* the name after the fifo suffix rule                                      *)
DenotedQueues ==
    IF HasArnPrefix(params.name)
    THEN {n \in DOMAIN queues : QueueArnOf(n) = params.name}
    ELSE {n \in DOMAIN queues :
            n = IF params.type = "fifo" /\ ~HasFifoSuffix(params.name)
                THEN params.name \o <<".", "f", "i", "f", "o">> ELSE params.name}

SqsReadOnlyOps == {"get_queue_url", "get_queue_attributes", "list_queues"}

(* C8: for a name that is a literal ARN or the name of an existing queue,   *)
(* sqs_queue_info completes without error, emits the ARN, the URL and the   *)
(* attributes of that queue, and makes no mutating call.                    *)
C8_QueueInfoEmitsQueue ==
    (/\ pc \in {"done", "failed"}
     /\ HasArnPrefix(params.name) \/ DenotedQueues # {})
        => /\ pc = "done"
           /\ result.emitted
           /\ result.sqs_queue_arn \in
                ({QueueArnOf(n) : n \in DenotedQueues}
                    \cup (IF HasArnPrefix(params.name) THEN {params.name} ELSE {}))
           /\ \A n \in DenotedQueues :
                /\ result.sqs_queue_url = QueueUrlOf(n)
                /\ result.sqs_queue_attributes.queue_arn = QueueArnOf(n)
           /\ \A i \in 1..Len(calls) : calls[i].op \in SqsReadOnlyOps

(* C12: for a queue name that does not exist, get_queue_url and            *)
(* get_queue_arn yield None, no attribute query is made against the        *)
(* missing queue URL, and the run completes successfully emitting the list *)
(* of all queue URLs.                                                      *)
C12_MissingQueueListsAll ==
    (/\ pc \in {"done", "failed"}
     /\ ~HasArnPrefix(params.name)
     /\ DenotedQueues = {})
        => /\ pc = "done"
           /\ ~result.failed
           /\ mgr.queue_url = NoStr
           /\ mgr.queue_arn = NoStr
           /\ \A i \in 1..Len(calls) : calls[i].op # "get_queue_attributes"
           /\ result.queue_urls = {QueueUrlOf(n) : n \in DOMAIN queues}

====
